---- MODULE Spec2Model ----
(***************************************************************************)
(* A model of src/apis.py: the articles table, the bearer-token gate of    *)
(* the admin routes and the create / update / delete / get handlers, each  *)
(* handler cut at its awaits (one step per database statement).            *)
(*                                                                         *)
(* Strings the code computes on (titles, slugs, path segments) are         *)
(* sequences of one-character strings; an Optional value is the empty set  *)
(* (None) or a singleton; a JSON body is a record that holds only the      *)
(* fields the client sent.                                                 *)
(***************************************************************************)
EXTENDS Integers, Sequences, FiniteSets, TLC

\* Requests received in one behaviour.
MaxRequests == 3

VARIABLES
    articles,   \* the articles table: id -> row
    next_id,    \* the id sequence of articles.id (autoincrement)
    clock,      \* datetime.datetime.utcnow(), as a counter
    started,    \* requests received so far
    req         \* slot -> the request in flight there, with its position

vars == <<articles, next_id, clock, started, req>>

\* The slots of the requests in flight: two overlap in Spec, SpecSeq runs
\* them one at a time.
Procs == {1, 2}

----------------------------------------------------------------------------
(* Strings *)

UpperCase == <<"A","B","C","D","E","F","G","H","I","J","K","L","M",
               "N","O","P","Q","R","S","T","U","V","W","X","Y","Z">>
LowerCase == <<"a","b","c","d","e","f","g","h","i","j","k","l","m",
               "n","o","p","q","r","s","t","u","v","w","x","y","z">>

lower_char(c) ==
    IF \E i \in 1..Len(UpperCase) : UpperCase[i] = c
    THEN LowerCase[CHOOSE i \in 1..Len(UpperCase) : UpperCase[i] = c]
    ELSE c

\* str.lower()
str_lower(s) == [i \in 1..Len(s) |-> lower_char(s[i])]

\* str.replace(" ", "-")
str_replace(s) == [i \in 1..Len(s) |-> IF s[i] = " " THEN "-" ELSE s[i]]

\* article.title.replace(" ", "-").lower()
title_slug(title) == str_lower(str_replace(title))

\* article.slug or article.title.replace(" ", "-").lower()
slug_of(article) ==
    IF article.slug # {} /\ article.slug # {<<>>}
    THEN CHOOSE s \in article.slug : TRUE
    ELSE title_slug(article.title)

HiA      == <<"H","i"," ","A">>
hi_a     == <<"h","i","-","a">>
Latest   == <<"L","a","t","e","s","t">>
latest   == <<"l","a","t","e","s","t">>
featured == <<"f","e","a","t","u","r","e","d">>
news     == <<"n","e","w","s">>

----------------------------------------------------------------------------
(* The credential and the gate *)

AdminToken   == [sig |-> "valid",   exp |-> "fresh",   claims |-> [sub |-> "admin", role |-> "admin"]]
UserToken    == [sig |-> "valid",   exp |-> "fresh",   claims |-> [sub |-> "bob",   role |-> "user"]]
NoRoleToken  == [sig |-> "valid",   exp |-> "fresh",   claims |-> [sub |-> "bob"]]
ExpiredToken == [sig |-> "valid",   exp |-> "expired", claims |-> [sub |-> "admin", role |-> "admin"]]
ForgedToken  == [sig |-> "invalid", exp |-> "fresh",   claims |-> [sub |-> "admin", role |-> "admin"]]

\* jwt.decode(token, JWT_SECRET, algorithms=["HS256"]): the signature first,
\* then the expiry; both failures are raised as 401.
decode_jwt_token(token) ==
    IF token.sig # "valid"
    THEN [ok |-> FALSE, status |-> 401, detail |-> "Invalid token"]
    ELSE IF token.exp = "expired"
    THEN [ok |-> FALSE, status |-> 401, detail |-> "Token has expired"]
    ELSE [ok |-> TRUE, claims |-> token.claims]

\* The Authorization header is None ({}) or the header's words, split at
\* " ". Header(...) makes it required: FastAPI answers a request without it
\* 422 and never calls the function.
get_current_user(authorization) ==
    IF authorization = {}
    THEN [ok |-> FALSE, status |-> 422, detail |-> "Field required"]
    ELSE LET words == CHOOSE h \in authorization : TRUE
         IN  IF ~(Len(words) >= 2 /\ words[1] = "Bearer")
             THEN [ok |-> FALSE, status |-> 401, detail |-> "Invalid auth header"]
             ELSE decode_jwt_token(words[2])

\* token.get("role") != "admin"
is_admin(claims) == "role" \in DOMAIN claims /\ claims.role = "admin"

----------------------------------------------------------------------------
(* The request body and the table *)

Required == {"title", "content", "category"}

\* pydantic's check of the body against ArticleSchema: title, content and
\* category are required str fields (no length constraint).
schema_valid(body) == Required \subseteq DOMAIN body

\* The parsed ArticleSchema, with the defaults of lines 44-49.
ArticleSchema(body) ==
    [title         |-> body.title,
     slug          |-> IF "slug" \in DOMAIN body THEN {body.slug} ELSE {},
     content       |-> body.content,
     category      |-> body.category,
     is_featured   |-> IF "is_featured" \in DOMAIN body THEN body.is_featured ELSE FALSE,
     status        |-> IF "status" \in DOMAIN body THEN body.status ELSE "draft",
     thumbnail_url |-> IF "thumbnail_url" \in DOMAIN body THEN {body.thumbnail_url} ELSE {}]

NoArticle == [none |-> TRUE]

\* unfeature_query with the statement left out.
unfeature_query_skipped(tbl) == tbl

\* articles.update().where(articles.c.is_featured == True).values(is_featured=False)
unfeature_query(tbl) ==
    [i \in DOMAIN tbl |-> [tbl[i] EXCEPT !.is_featured = FALSE]]

\* The row written by insert_query (lines 173-183).
insert_values(article, id, now) ==
    [id            |-> id,
     title         |-> article.title,
     slug          |-> slug_of(article),
     content       |-> article.content,
     category      |-> article.category,
     is_featured   |-> article.is_featured,
     status        |-> article.status,
     thumbnail_url |-> article.thumbnail_url,
     created_at    |-> now,
     updated_at    |-> now]

\* The row written by update_query (lines 208-217): created_at is kept.
update_values(row, article, now) ==
    [id            |-> row.id,
     title         |-> article.title,
     slug          |-> slug_of(article),
     content       |-> article.content,
     category      |-> article.category,
     is_featured   |-> article.is_featured,
     status        |-> article.status,
     thumbnail_url |-> article.thumbnail_url,
     created_at    |-> row.created_at,
     updated_at    |-> now]

\* Column("slug", ..., unique=True): the slug is held by a row other than id.
slug_conflict(tbl, slug, id) ==
    \E i \in DOMAIN tbl : i # id /\ tbl[i].slug = slug

\* select_by_id without its WHERE clause: any row of the table.
select_by_id_unfiltered(tbl, id) ==
    IF DOMAIN tbl = {} THEN {} ELSE {tbl[CHOOSE i \in DOMAIN tbl : TRUE]}

\* articles.select().where(articles.c.id == article_id), fetch_one
select_by_id(tbl, id) == IF id \in DOMAIN tbl THEN {tbl[id]} ELSE {}

\* articles.select().where(articles.c.slug == slug), fetch_one
select_by_slug(tbl, slug) == {tbl[i] : i \in {j \in DOMAIN tbl : tbl[j].slug = slug}}

\* articles.select().where(articles.c.is_featured == True)
select_featured(tbl) == {tbl[i] : i \in {j \in DOMAIN tbl : tbl[j].is_featured}}

RECURSIVE order_by_created_desc(_)
order_by_created_desc(rows) ==
    IF rows = {} THEN <<>>
    ELSE LET m == CHOOSE r \in rows : \A q \in rows : q.created_at <= r.created_at
         IN  <<m>> \o order_by_created_desc(rows \ {m})

DefaultLimit == 10

\* articles.select().order_by(articles.c.created_at.desc()).limit(limit)
select_latest(tbl, limit) ==
    LET all == order_by_created_desc({tbl[i] : i \in DOMAIN tbl})
    IN  SubSeq(all, 1, IF Len(all) < limit THEN Len(all) ELSE limit)

\* response = article.dict(); response.update({id, created_at, updated_at})
create_response(article, id, now) ==
    [message |-> "Article created",
     article |-> [id            |-> id,
                  title         |-> article.title,
                  slug          |-> article.slug,
                  content       |-> article.content,
                  category      |-> article.category,
                  is_featured   |-> article.is_featured,
                  status        |-> article.status,
                  thumbnail_url |-> article.thumbnail_url,
                  created_at    |-> now,
                  updated_at    |-> now]]

----------------------------------------------------------------------------
(* The requests a client can send *)

Titles == {HiA, hi_a, Latest}

AdminHeader == {<<"Bearer", AdminToken>>}

\* No header, no "Bearer " prefix, another scheme, and the credentials that
\* fail in decode_jwt_token or in is_admin.
OtherHeaders ==
    {{}, {<<"Bearer">>}, {<<"Basic", AdminToken>>}, {<<"Bearer", ForgedToken>>},
     {<<"Bearer", ExpiredToken>>}, {<<"Bearer", UserToken>>}, {<<"Bearer", NoRoleToken>>}}

Body(title, is_featured) ==
    [title |-> title, content |-> "text", category |-> "news", is_featured |-> is_featured]

PlainBodies == {Body(t, f) : t \in Titles, f \in BOOLEAN}

\* Bodies with a slug, the empty slug, empty strings and the optional fields.
SluggedBodies ==
    {[title |-> Latest, slug |-> hi_a, content |-> "text", category |-> "news",
      is_featured |-> TRUE],
     [title |-> HiA, slug |-> <<>>, content |-> "text", category |-> "news"],
     [title |-> <<>>, content |-> "text", category |-> "news", is_featured |-> TRUE],
     [title |-> news, content |-> "", category |-> "", status |-> "published",
      thumbnail_url |-> "t.png"]}

\* Bodies that lack a required field.
PartialBodies ==
    {[content |-> "text", category |-> "news", is_featured |-> TRUE],
     [title |-> HiA, category |-> "news", is_featured |-> TRUE],
     [title |-> HiA, content |-> "text", is_featured |-> TRUE]}

Bodies == PlainBodies \cup SluggedBodies \cup PartialBodies

UpdateBodies ==
    {Body(t, f) : t \in {HiA, hi_a}, f \in BOOLEAN}
    \cup {[content |-> "text", category |-> "news", is_featured |-> TRUE],
          [title |-> <<>>, content |-> "text", category |-> "news", is_featured |-> TRUE]}

PathIds == {1, 2, 999}

Segments == {hi_a, latest, featured, news}

NoBody == [none |-> TRUE]

Request(kind, header, body, id, seg) ==
    [kind |-> kind, header |-> header, body |-> body, path_id |-> id, seg |-> seg]

Requests ==
    {Request("create", AdminHeader, b, 0, <<>>) : b \in Bodies}
    \cup {Request("update", AdminHeader, b, i, <<>>) : b \in UpdateBodies, i \in PathIds}
    \cup {Request("delete", AdminHeader, NoBody, i, <<>>) : i \in PathIds}
    \cup {Request("get", {}, NoBody, 0, s) : s \in Segments}
    \cup {Request("create", h, Body(HiA, TRUE), 0, <<>>) : h \in OtherHeaders}
    \cup {Request("update", h, Body(HiA, TRUE), 1, <<>>) :
            h \in {{}, {<<"Bearer", ExpiredToken>>}, {<<"Bearer", UserToken>>}}}
    \cup {Request("delete", h, NoBody, 1, <<>>) :
            h \in {{}, {<<"Bearer", ForgedToken>>}, {<<"Bearer", NoRoleToken>>}}}

\* The requests of the overlapping runs: every handler, both values of
\* is_featured, a slug collision, an absent id and a refused credential.
ConcRequests ==
    {Request("create", AdminHeader, b, 0, <<>>) :
        b \in {Body(HiA, TRUE), Body(Latest, TRUE), Body(hi_a, FALSE)}}
    \cup {Request("update", AdminHeader, b, i, <<>>) :
            b \in {Body(HiA, TRUE), Body(Latest, FALSE)}, i \in {1, 2}}
    \cup {Request("delete", AdminHeader, NoBody, i, <<>>) : i \in {1, 2}}
    \cup {Request("get", {}, NoBody, 0, featured),
          Request("create", {<<"Bearer", UserToken>>}, Body(HiA, TRUE), 0, <<>>),
          Request("update", AdminHeader,
                  [content |-> "text", category |-> "news", is_featured |-> TRUE], 1, <<>>)}

AdminKinds == {"create", "update", "delete"}

----------------------------------------------------------------------------
(* The state machine *)

NoResponse == [status |-> 0]

\* A free slot. Beside the request (kind, header, body, path_id, seg) and the
\* handler's locals (article, now) a slot records what the request has done:
\*   gate      how far the dependencies got: unauthenticated, authenticated
\*             (get_current_user returned), authorized or forbidden (is_admin)
\*   stmts     the statements it has issued against the articles table
\*   rowcount  the rows its last INSERT, UPDATE or DELETE wrote
\*   before    the table when the request arrived
\*   resp      the response, once pc = "done"
Idle ==
    [pc |-> "idle", kind |-> "none", header |-> {}, body |-> NoBody, path_id |-> 0,
     seg |-> <<>>, gate |-> "unauthenticated", article |-> NoArticle, now |-> 0,
     stmts |-> 0, rowcount |-> 0, before |-> <<>>, resp |-> NoResponse]

Init ==
    /\ articles = <<>>
    /\ next_id = 1
    /\ clock = 0
    /\ started = 0
    /\ req = [p \in Procs |-> Idle]

Done(r, status, body) ==
    [r EXCEPT !.pc = "done", !.resp = [status |-> status, body |-> body]]

\* A request arrives in the first free slot. The public routes have no
\* dependency; the admin routes start at Depends(is_admin).
Receive(p, r) ==
    /\ started < MaxRequests
    /\ req[p].pc = "idle"
    /\ \A q \in Procs : q < p => req[q].pc # "idle"
    /\ req' = [req EXCEPT ![p] =
                 [Idle EXCEPT !.pc = IF r.kind \in AdminKinds THEN "authenticate" ELSE "run",
                              !.kind = r.kind, !.header = r.header, !.body = r.body,
                              !.path_id = r.path_id, !.seg = r.seg, !.before = articles]]
    /\ started' = started + 1
    /\ UNCHANGED <<articles, next_id, clock>>

\* The response is sent and the slot is free again.
Respond(p) ==
    /\ req[p].pc = "done"
    /\ req' = [req EXCEPT ![p] = Idle]
    /\ UNCHANGED <<articles, next_id, clock, started>>

\* Depends(get_current_user)
Authenticate(p) ==
    LET r == req[p]
        u == get_current_user(r.header)
    IN  /\ r.pc = "authenticate"
        /\ req' = [req EXCEPT ![p] =
                     IF u.ok
                     THEN [r EXCEPT !.pc = "authorize", !.gate = "authenticated"]
                     ELSE Done(r, u.status, [detail |-> u.detail])]
        /\ UNCHANGED <<articles, next_id, clock, started>>

\* Depends(is_admin), on the claims get_current_user returned; then the
\* body is parsed (create, update) or the handler runs (delete).
Authorize(p) ==
    LET r == req[p]
        u == get_current_user(r.header)
    IN  /\ r.pc = "authorize"
        /\ req' = [req EXCEPT ![p] =
                     IF is_admin(u.claims)
                     THEN [r EXCEPT !.pc = IF r.kind = "delete" THEN "run" ELSE "validate",
                                    !.gate = "authorized"]
                     ELSE Done([r EXCEPT !.gate = "forbidden"], 403,
                               [detail |-> "Not enough permissions"])]
        /\ UNCHANGED <<articles, next_id, clock, started>>

\* Validate with the body taken as an unchecked dict: absent fields read as
\* empty and the handler always runs.
ValidateUnchecked(p) ==
    LET r == req[p]
        b == r.body
        filled == [title    |-> IF "title" \in DOMAIN b THEN b.title ELSE <<>>,
                   content  |-> IF "content" \in DOMAIN b THEN b.content ELSE "",
                   category |-> IF "category" \in DOMAIN b THEN b.category ELSE "",
                   is_featured |-> IF "is_featured" \in DOMAIN b THEN b.is_featured ELSE FALSE]
    IN  /\ r.pc = "validate"
        /\ req' = [req EXCEPT ![p] = [r EXCEPT !.pc = "run", !.article = ArticleSchema(filled)]]
        /\ UNCHANGED <<articles, next_id, clock, started>>

\* article: ArticleSchema
Validate(p) ==
    LET r == req[p]
    IN  /\ r.pc = "validate"
        /\ req' = [req EXCEPT ![p] =
                     IF schema_valid(r.body)
                     THEN [r EXCEPT !.pc = "run", !.article = ArticleSchema(r.body)]
                     ELSE Done(r, 422, [detail |-> "Field required"])]
        /\ UNCHANGED <<articles, next_id, clock, started>>

\* Insert run in one transaction with the clearing of the other rows' flags.
InsertClearing(p, r, now) ==
    LET row == insert_values(r.article, next_id, now)
        cleared == IF row.is_featured THEN unfeature_query(articles) ELSE articles
    IN  /\ next_id' = next_id + 1
        /\ IF slug_conflict(articles, row.slug, 0)
           THEN /\ articles' = articles
                /\ req' = [req EXCEPT ![p] =
                             Done([r EXCEPT !.now = now, !.stmts = @ + 1], 500,
                                  [detail |-> "UniqueViolation"])]
           ELSE /\ articles' = [i \in DOMAIN articles \cup {next_id} |->
                                  IF i = next_id THEN row ELSE cleared[i]]
                /\ req' = [req EXCEPT ![p] =
                             Done([r EXCEPT !.now = now, !.stmts = @ + 1, !.rowcount = 1],
                                  201, create_response(r.article, next_id, now))]

\* db.execute(insert_query): the id sequence advances whether or not the
\* row is accepted; a slug another row holds violates the unique constraint
\* and the handler's exception is answered 500.
Insert(p, r, now) ==
    LET row == insert_values(r.article, next_id, now)
    IN  /\ next_id' = next_id + 1
        /\ IF slug_conflict(articles, row.slug, 0)
           THEN /\ articles' = articles
                /\ req' = [req EXCEPT ![p] =
                             Done([r EXCEPT !.now = now, !.stmts = @ + 1], 500,
                                  [detail |-> "UniqueViolation"])]
           ELSE /\ articles' = [i \in DOMAIN articles \cup {next_id} |->
                                  IF i = next_id THEN row ELSE articles[i]]
                /\ req' = [req EXCEPT ![p] =
                             Done([r EXCEPT !.now = now, !.stmts = @ + 1, !.rowcount = 1],
                                  201, create_response(r.article, next_id, now))]

\* create_article, lines 167-171: the payload is featured.
CreateUnfeature(p) ==
    LET r == req[p]
    IN  /\ r.pc = "run" /\ r.kind = "create"
        /\ r.article.is_featured
        /\ clock' = clock + 1
        /\ articles' = unfeature_query(articles)
        /\ req' = [req EXCEPT ![p] =
                     [r EXCEPT !.pc = "insert", !.now = clock + 1, !.stmts = @ + 1]]
        /\ UNCHANGED <<next_id, started>>

\* create_article, lines 173-192 (from line 167 when the payload is not featured).
CreateInsert(p) ==
    LET r == req[p]
    IN  /\ r.kind = "create"
        /\ \/ /\ r.pc = "run"
              /\ ~r.article.is_featured
              /\ clock' = clock + 1
              /\ Insert(p, r, clock + 1)
           \/ /\ r.pc = "insert"
              /\ clock' = clock
              /\ Insert(p, r, r.now)
        /\ UNCHANGED started

\* update_article, lines 197-202.
UpdateSelect(p) ==
    LET r == req[p]
        existing_article == select_by_id(articles, r.path_id)
    IN  /\ r.pc = "run" /\ r.kind = "update"
        /\ clock' = clock + 1
        /\ req' = [req EXCEPT ![p] =
                     IF existing_article = {}
                     THEN Done([r EXCEPT !.now = clock + 1, !.stmts = @ + 1], 404,
                               [detail |-> "Article not found"])
                     ELSE [r EXCEPT !.pc = IF r.article.is_featured THEN "unfeature" ELSE "write",
                                    !.now = clock + 1, !.stmts = @ + 1]]
        /\ UNCHANGED <<articles, next_id, started>>

\* update_article, lines 204-206.
UpdateUnfeature(p) ==
    LET r == req[p]
    IN  /\ r.pc = "unfeature" /\ r.kind = "update"
        /\ articles' = unfeature_query(articles)
        /\ req' = [req EXCEPT ![p] = [r EXCEPT !.pc = "write", !.stmts = @ + 1]]
        /\ UNCHANGED <<next_id, clock, started>>

\* update_article, lines 208-220: UPDATE ... WHERE id = article_id writes the
\* row if it is (still) there, and the handler answers 200 either way.
UpdateWrite(p) ==
    LET r == req[p]
    IN  /\ r.pc = "write" /\ r.kind = "update"
        /\ IF r.path_id \notin DOMAIN articles
           THEN /\ articles' = articles
                /\ req' = [req EXCEPT ![p] =
                             Done([r EXCEPT !.stmts = @ + 1, !.rowcount = 0], 200,
                                  [message |-> "Article updated", article_id |-> r.path_id])]
           ELSE IF slug_conflict(articles, slug_of(r.article), r.path_id)
           THEN /\ articles' = articles
                /\ req' = [req EXCEPT ![p] =
                             Done([r EXCEPT !.stmts = @ + 1], 500,
                                  [detail |-> "UniqueViolation"])]
           ELSE /\ articles' = [articles EXCEPT ![r.path_id] =
                                  update_values(articles[r.path_id], r.article, r.now)]
                /\ req' = [req EXCEPT ![p] =
                             Done([r EXCEPT !.stmts = @ + 1, !.rowcount = 1], 200,
                                  [message |-> "Article updated", article_id |-> r.path_id])]
        /\ UNCHANGED <<next_id, clock, started>>

\* delete_article, lines 225-228.
DeleteSelect(p) ==
    LET r == req[p]
        existing_article == select_by_id(articles, r.path_id)
    IN  /\ r.pc = "run" /\ r.kind = "delete"
        /\ req' = [req EXCEPT ![p] =
                     IF existing_article = {}
                     THEN Done([r EXCEPT !.stmts = @ + 1], 404,
                               [detail |-> "Article not found"])
                     ELSE [r EXCEPT !.pc = "delete", !.stmts = @ + 1]]
        /\ UNCHANGED <<articles, next_id, clock, started>>

\* delete_article, lines 230-232.
DeleteWrite(p) ==
    LET r == req[p]
    IN  /\ r.pc = "delete" /\ r.kind = "delete"
        /\ articles' = [i \in DOMAIN articles \ {r.path_id} |-> articles[i]]
        /\ req' = [req EXCEPT ![p] =
                     Done([r EXCEPT !.stmts = @ + 1,
                                    !.rowcount = IF r.path_id \in DOMAIN articles THEN 1 ELSE 0],
                          204, [message |-> "Article deleted", article_id |-> r.path_id])]
        /\ UNCHANGED <<next_id, clock, started>>

\* The route that answers GET /api/articles/<seg>: routes match in the
\* order they are registered (lines 117, 126, 145).
route(seg) ==
    IF seg = featured THEN "get_featured_article"
    ELSE IF seg = latest THEN "get_latest_articles"
    ELSE "get_article_by_slug"

\* GET /api/articles/<seg>
Get(p) ==
    LET r == req[p]
        handler == route(r.seg)
    IN  /\ r.pc = "run" /\ r.kind = "get"
        /\ \/ /\ handler = "get_featured_article"
              /\ IF select_featured(articles) = {}
                 THEN req' = [req EXCEPT ![p] =
                                Done([r EXCEPT !.stmts = @ + 1], 200,
                                     [message |-> "No featured articles found"])]
                 ELSE \E row \in select_featured(articles) :
                        req' = [req EXCEPT ![p] = Done([r EXCEPT !.stmts = @ + 1], 200, row)]
           \/ /\ handler = "get_latest_articles"
              /\ req' = [req EXCEPT ![p] =
                           Done([r EXCEPT !.stmts = @ + 1], 200,
                                select_latest(articles, DefaultLimit))]
           \/ /\ handler = "get_article_by_slug"
              /\ IF select_by_slug(articles, r.seg) = {}
                 THEN req' = [req EXCEPT ![p] =
                                Done([r EXCEPT !.stmts = @ + 1], 404,
                                     [detail |-> "Article not found"])]
                 ELSE \E row \in select_by_slug(articles, r.seg) :
                        req' = [req EXCEPT ![p] = Done([r EXCEPT !.stmts = @ + 1], 200, row)]
        /\ UNCHANGED <<articles, next_id, clock, started>>

Step(p) ==
    \/ Authenticate(p)
    \/ Authorize(p)
    \/ Validate(p)
    \/ CreateUnfeature(p)
    \/ CreateInsert(p)
    \/ UpdateSelect(p)
    \/ UpdateUnfeature(p)
    \/ UpdateWrite(p)
    \/ DeleteSelect(p)
    \/ DeleteWrite(p)
    \/ Get(p)
    \/ Respond(p)

\* Requests overlap: two are in flight, interleaved at their awaits.
Next ==
    \E p \in Procs :
        \/ \E r \in ConcRequests : Receive(p, r)
        \/ Step(p)

Spec == Init /\ [][Next]_vars

\* A request arrives only when no other is in flight.
ReceiveSeq(p, r) ==
    /\ \A q \in Procs : req[q].pc = "idle"
    /\ Receive(p, r)

\* Requests run one at a time, each to completion before the next starts.
NextSeq ==
    \E p \in Procs :
        \/ \E r \in Requests : ReceiveSeq(p, r)
        \/ Step(p)

SpecSeq == Init /\ [][NextSeq]_vars

----------------------------------------------------------------------------
(* What the claims speak of *)

Finished(p) == req[p].pc = "done"

FeaturedIds == {i \in DOMAIN articles : articles[i].is_featured}

\* The id a create or update request writes.
WrittenId(r) == IF r.kind = "create" THEN r.resp.body.article.id ELSE r.path_id

Succeeded(r) == r.resp.status \in {200, 201, 204}

\* The credential as the gate's contract describes it.
WellFormed(h) ==
    h # {} /\ \A w \in h : Len(w) >= 2 /\ w[1] = "Bearer"
Credential(h) == (CHOOSE w \in h : TRUE)[2]
Authentic(h) ==
    WellFormed(h) /\ Credential(h).sig = "valid" /\ Credential(h).exp = "fresh"
AdminRole(h) ==
    "role" \in DOMAIN Credential(h).claims /\ Credential(h).claims.role = "admin"

MissingField(body) == \E f \in Required : f \notin DOMAIN body
EmptyField(body) ==
    \/ "title" \in DOMAIN body /\ body.title = <<>>
    \/ "content" \in DOMAIN body /\ body.content = ""
    \/ "category" \in DOMAIN body /\ body.category = ""

----------------------------------------------------------------------------
(* C1 *)

\* C1: with the requests run one at a time, at most one article is featured
\* in every state, and after a successful create or update whose payload is
\* featured the written article is the only featured one.
C1_FeatureInvariant ==
    /\ Cardinality(FeaturedIds) <= 1
    /\ \A p \in Procs :
         (/\ Finished(p)
          /\ req[p].kind \in {"create", "update"}
          /\ Succeeded(req[p])
          /\ req[p].article.is_featured)
         => FeaturedIds = {WrittenId(req[p])}

\* A featured write has succeeded while another article was featured.
C1_Witness ==
    \E p \in Procs :
        /\ Finished(p)
        /\ req[p].kind \in {"create", "update"}
        /\ Succeeded(req[p])
        /\ req[p].article.is_featured
        /\ \E i \in DOMAIN req[p].before :
             i # WrittenId(req[p]) /\ req[p].before[i].is_featured /\ i \in DOMAIN articles

----------------------------------------------------------------------------
(* C2 *)

\* C2: the write of a request that has already cleared the flags does not
\* clear them again: it adds the row it writes to the featured ones and
\* leaves the others, so that two requests that both clear and then both
\* write leave more than one article featured (C2_Witness).
C2_FeatureRace ==
    [][\A p \in Procs :
         (/\ req[p].pc \in {"insert", "write"}
          /\ req[p].article.is_featured
          /\ req'[p].pc = "done"
          /\ Succeeded(req'[p])
          /\ req'[p].rowcount = 1)
         => FeaturedIds' = FeaturedIds \cup {WrittenId(req'[p])}]_vars

\* Two requests with a featured payload have overlapped and both articles
\* are featured.
C2_Witness ==
    /\ Cardinality(FeaturedIds) > 1
    /\ \A p \in Procs :
         /\ Finished(p) /\ Succeeded(req[p])
         /\ req[p].kind \in {"create", "update"} /\ req[p].article.is_featured

----------------------------------------------------------------------------
(* C3, C4 *)

\* C3: a request to an admin route touches the table only after the
\* credential was authenticated and the admin role was found, in this order;
\* an authentication failure is answered 401 before the role check, a valid
\* credential without the admin role 403, and the table is unchanged.
C3_AdminGate ==
    \A p \in Procs :
        req[p].kind \in AdminKinds =>
            /\ (req[p].stmts > 0 \/ req[p].pc \in {"validate", "run", "insert", "unfeature",
                                                      "write", "delete"})
                 => Authentic(req[p].header) /\ AdminRole(req[p].header)
                    /\ req[p].gate = "authorized"
            /\ req[p].gate = "authorized" => Authentic(req[p].header)
            /\ (Finished(p) /\ ~Authentic(req[p].header))
                 => /\ req[p].resp.status = 401
                    /\ req[p].gate = "unauthenticated"
                    /\ articles = req[p].before
            /\ (Finished(p) /\ Authentic(req[p].header) /\ ~AdminRole(req[p].header))
                 => /\ req[p].resp.status = 403
                    /\ req[p].gate = "forbidden"
                    /\ articles = req[p].before

\* C4: a create request without an Authorization header is answered 401
\* and the table is unchanged.
C4_NoHeader401 ==
    \A p \in Procs :
        (Finished(p) /\ req[p].kind = "create" /\ req[p].header = {})
        => req[p].resp.status = 401 /\ articles = req[p].before

----------------------------------------------------------------------------
(* C5 *)

\* C5: an authorized update or delete of an id that matches no row is
\* answered 404 and leaves the table as it was, whatever the payload's
\* is_featured.
C5_AbsentId ==
    \A p \in Procs :
        (/\ Finished(p)
         /\ req[p].kind \in {"update", "delete"}
         /\ Authentic(req[p].header) /\ AdminRole(req[p].header)
         /\ req[p].kind = "update" => ~MissingField(req[p].body)
         /\ req[p].path_id \notin DOMAIN req[p].before)
        => req[p].resp.status = 404 /\ articles = req[p].before

\* An update with a featured payload was refused for its absent id while an
\* article was featured.
C5_Witness ==
    \E p \in Procs :
        /\ Finished(p)
        /\ req[p].kind = "update"
        /\ req[p].resp.status = 404
        /\ req[p].article.is_featured
        /\ req[p].path_id \notin DOMAIN req[p].before
        /\ \E i \in DOMAIN articles : articles[i].is_featured

----------------------------------------------------------------------------
(* C6 *)

\* C6: a successful create without a slug stores the title lowercased with
\* its spaces replaced by hyphens, and a GET of that slug that follows is
\* answered 200 with the created row.
C6_SlugRoundTrip ==
    \A p \in Procs :
        /\ (/\ Finished(p) /\ req[p].kind = "create" /\ req[p].resp.status = 201
            /\ "slug" \notin DOMAIN req[p].body)
           => /\ WrittenId(req[p]) \in DOMAIN articles
              /\ articles[WrittenId(req[p])].slug = str_lower(str_replace(req[p].body.title))
        /\ (Finished(p) /\ req[p].kind = "get")
           => \A i \in DOMAIN articles :
                (/\ articles[i].slug = req[p].seg
                 /\ articles[i].slug = str_lower(str_replace(articles[i].title))
                 /\ articles[i].updated_at = articles[i].created_at)
                => req[p].resp.status = 200 /\ req[p].resp.body = articles[i]

----------------------------------------------------------------------------
(* C7 *)

\* C7 as stated: a create or update whose title, content or category is
\* missing or empty is rejected as a client error before any statement is
\* issued, and the table is unchanged.
C7_MissingOrEmptyRejected ==
    \A p \in Procs :
        (/\ req[p].kind \in {"create", "update"}
         /\ MissingField(req[p].body) \/ EmptyField(req[p].body))
        => /\ req[p].stmts = 0
           /\ Finished(p) => /\ req[p].resp.status \in 400..499
                             /\ articles = req[p].before

\* C7 as amended: a create or update whose title, content or category is
\* missing is rejected as a client error before any statement is issued, and
\* the table is unchanged.
C7_MissingRejected ==
    \A p \in Procs :
        (/\ req[p].kind \in {"create", "update"}
         /\ MissingField(req[p].body))
        => /\ req[p].stmts = 0
           /\ Finished(p) => /\ req[p].resp.status \in 400..499
                             /\ articles = req[p].before

\* An admin's featured payload without a required field was answered 422
\* while an article was featured.
C7_Witness ==
    \E p \in Procs :
        /\ Finished(p)
        /\ req[p].kind \in {"create", "update"}
        /\ req[p].gate = "authorized"
        /\ MissingField(req[p].body)
        /\ req[p].body.is_featured
        /\ req[p].resp.status = 422
        /\ \E i \in DOMAIN articles : articles[i].is_featured

----------------------------------------------------------------------------
(* C8 *)

\* C8: the article in the response of a successful create equals the row
\* stored: id, title, slug, content, category, is_featured, status,
\* thumbnail_url, and created_at = updated_at = the creation time.
C8_CreateReturnsRow ==
    \A p \in Procs :
        (Finished(p) /\ req[p].kind = "create" /\ req[p].resp.status = 201)
        => LET a == req[p].resp.body.article
           IN  /\ a.id \in DOMAIN articles
               /\ a.id = articles[a.id].id
               /\ a.title = articles[a.id].title
               /\ a.slug = {articles[a.id].slug}
               /\ a.content = articles[a.id].content
               /\ a.category = articles[a.id].category
               /\ a.is_featured = articles[a.id].is_featured
               /\ a.status = articles[a.id].status
               /\ a.thumbnail_url = articles[a.id].thumbnail_url
               /\ a.created_at = req[p].now /\ a.updated_at = req[p].now
               /\ a.created_at = articles[a.id].created_at
               /\ a.updated_at = articles[a.id].updated_at

----------------------------------------------------------------------------
(* C9, C10 *)

\* C9: an update is answered 200 only when its UPDATE statement found the
\* row, under every interleaving with a delete of the same id.
C9_UpdateFindsRow ==
    \A p \in Procs :
        (Finished(p) /\ req[p].kind = "update" /\ req[p].resp.status = 200)
        => req[p].rowcount = 1

\* C10: a create or update that fails on the slug's unique constraint leaves
\* the table as it was before the request.
C10_FailedWriteUnchanged ==
    \A p \in Procs :
        (/\ Finished(p)
         /\ req[p].kind \in {"create", "update"}
         /\ req[p].resp.status = 500)
        => articles = req[p].before

====
